---- MODULE Spec2Model ----
(***************************************************************************)
(* Promotion validation and orchestration of the audio pipeline:           *)
(*   content-promoter/index.py      ContentPromoter and its Lambda handler *)
(*   promotion-orchestrator/index.py PromotionOrchestrator and its handler *)
(* Every action is one external call (DynamoDB, S3, SNS, Lambda invoke,    *)
(* EventBridge) together with the Python code that runs up to the next     *)
(* external call.  An external call either succeeds ("ok") or raises       *)
(* ("fail").  The JSON envelopes exchanged between the two Lambdas are     *)
(* modelled by the fields the callers read (statusCode, readyForPromotion, *)
(* promotion); attribute values are taken to be JSON-serialisable.         *)
(***************************************************************************)
EXTENDS Integers, Sequences, FiniteSets, TLC

(* ------------------------------ bounds -------------------------------- *)
NumTracks == 2
NumFiles == 2
MaxCommands == 1
MaxNow == 60

(* ------------------------- program constants -------------------------- *)
MinAgeHours == 1
MinDuration == 1
MaxDuration == 600
MinFileSize == 10000
DefaultMaxPromotions == 5

MaxFileSize == 50 * 1024 * 1024

\* durations are decimal numbers of seconds, counted here in hundredths
PerSecond == 100

Tracks == 1..NumTracks
\* an artifact id that has no staging record and no object
Unknown == NumTracks + 1
Ids == Tracks \cup {Unknown}
Files == 1..NumFiles
Runs == {"A", "B"}

NoRecord == [id |-> 0]
NoTrack == 0

VARIABLES
    now,         \* wall clock, minutes
    cfg,         \* environment variables read at module load
    devTable,    \* staging metadata table: track id -> item or NoRecord
    devBucket,   \* staging media bucket: track id -> files under audio/{id}/
    prodTable,   \* production metadata table
    prodBucket,  \* production media bucket
    active,      \* orchestrator/promoter invocations that may run
    pc,          \* per invocation: the external call it is about to make
    cmd,         \* per invocation: the event it was started with
    candidates,  \* per invocation: result of scan_for_promotion_candidates
    batch,       \* per invocation: batch_result of process_batch_promotion
    wf,          \* per invocation: workflow_result of process_promotion_workflow
    pr,          \* per invocation: the content-promoter invocation in progress
    result,      \* per invocation: what the entry point returned last
    faults,      \* whether an external call has failed since the last entry-point event
    cmds,        \* entry-point events still to be delivered
    promoteOk    \* tracks for which promote_content_to_prod returned success

vars == <<now, cfg, devTable, devBucket, prodTable, prodBucket, active, pc, cmd,
          candidates, batch, wf, pr, result, faults, cmds, promoteOk>>

stores == <<devTable, devBucket, prodTable, prodBucket>>

(* ------------------------------ records ------------------------------- *)
\* A DynamoDB item: `has` is the set of attributes the item carries; the
\* value of an attribute outside `has` is never read.
AllAttrs == {"id", "createdDate", "status", "title", "filename", "fileUrl",
             "fileSize", "duration", "genre", "description", "tags"}

\* Item written by the audio processor (audio-processor/index.py:234-250).
Item(id, created, status, duration, fileSize) ==
    [has |-> AllAttrs, id |-> id, createdDate |-> created, status |-> status,
     title |-> "title", filename |-> "track.wav",
     fileUrl |-> <<"https://", "dev-media", "/audio/track.wav">>,
     fileSize |-> fileSize, duration |-> duration, genre |-> "unknown",
     description |-> "", tags |-> <<>>, promotionStatus |-> "",
     promotedAt |-> 0, promotedFrom |-> "", environment |-> ""]

Without(item, f) == [item EXCEPT !.has = @ \ {f}]

NumberAttrs == {"fileSize", "duration", "promotedAt"}
ListAttrs == {"fileUrl", "tags"}

\* `not track.get(f)`: the attribute is missing or its value is falsy in Python
Falsy(track, f) ==
    \/ f \notin track.has
    \/ IF f \in NumberAttrs THEN track[f] = 0
       ELSE IF f \in ListAttrs THEN track[f] = <<>>
       ELSE track[f] = ""

\* track.get(f, 0) of a number attribute
GetOr0(track, f) == IF f \in track.has THEN track[f] ELSE 0

(* ------------------------ Eligibility Validator ----------------------- *)
Check(name, passed, message) == [name |-> name, passed |-> passed, message |-> message]

required_fields == <<"title", "filename", "fileUrl", "duration">>

RequiredName(f) ==
    CASE f = "title" -> "Required Field: title"
      [] f = "filename" -> "Required Field: filename"
      [] f = "fileUrl" -> "Required Field: fileUrl"
      [] f = "duration" -> "Required Field: duration"

status_check(track) ==
    IF "status" \notin track.has \/ track.status # "processed"
    THEN Check("Processing Status", FALSE, "status is not processed")
    ELSE Check("Processing Status", TRUE, "Track is fully processed")

required_check(track, f) ==
    IF Falsy(track, f)
    THEN Check(RequiredName(f), FALSE, "Missing required field")
    ELSE Check(RequiredName(f), TRUE, "field is present")

file_check(file_exists) ==
    Check("File Existence", file_exists,
          IF file_exists THEN "Audio file exists in DEV bucket"
                         ELSE "Audio file not found in DEV bucket")

\* mutant: the bounds are exclusive
_validate_audio_quality_exclusive(track) ==
    LET duration == GetOr0(track, "duration")
        file_size == GetOr0(track, "fileSize")
    IN  IF duration <= MinDuration * PerSecond
        THEN Check("Audio Quality", FALSE, "Duration is too short (less than 1 second)")
        ELSE IF duration >= MaxDuration * PerSecond
        THEN Check("Audio Quality", FALSE, "Duration is too long (over 10 minutes)")
        ELSE IF file_size <= MinFileSize
        THEN Check("Audio Quality", FALSE, "File size is too small (likely corrupted)")
        ELSE IF file_size >= MaxFileSize
        THEN Check("Audio Quality", FALSE, "File size is too large (over 50MB)")
        ELSE Check("Audio Quality", TRUE, "Audio quality checks passed")

_validate_audio_quality(track) ==
    LET duration == GetOr0(track, "duration")
        file_size == GetOr0(track, "fileSize")
    IN  IF duration < MinDuration * PerSecond
        THEN Check("Audio Quality", FALSE, "Duration is too short (less than 1 second)")
        ELSE IF duration > MaxDuration * PerSecond
        THEN Check("Audio Quality", FALSE, "Duration is too long (over 10 minutes)")
        ELSE IF file_size < MinFileSize
        THEN Check("Audio Quality", FALSE, "File size is too small (likely corrupted)")
        ELSE IF file_size > MaxFileSize
        THEN Check("Audio Quality", FALSE, "File size is too large (over 50MB)")
        ELSE Check("Audio Quality", TRUE, "Audio quality checks passed")

warnings_of(track) ==
    (IF Falsy(track, "description") THEN <<"No description provided">> ELSE <<>>)
    \o (IF Falsy(track, "genre") \/ track.genre = "unknown"
        THEN <<"Genre not specified">> ELSE <<>>)
    \o (IF Falsy(track, "tags") THEN <<"No tags specified">> ELSE <<>>)

checks_of(track, file_exists) ==
    <<status_check(track)>>
    \o [i \in 1..Len(required_fields) |-> required_check(track, required_fields[i])]
    \o <<file_check(file_exists), _validate_audio_quality(track)>>

\* mutant: the validation stops at the first check that fails
validation_results_first_failure(track, file_exists) ==
    LET checks == checks_of(track, file_exists)
        failing == {i \in 1..Len(checks) : ~checks[i].passed}
        last == IF failing = {} THEN Len(checks)
                ELSE CHOOSE i \in failing : \A j \in failing : i <= j
    IN  [valid |-> failing = {}, checks |-> SubSeq(checks, 1, last),
         warnings |-> warnings_of(track), track |-> track, reason |-> ""]

\* validation_results as returned at line 122
validation_results(track, file_exists) ==
    LET checks == checks_of(track, file_exists)
    IN  [valid |-> \A i \in 1..Len(checks) : checks[i].passed,
         checks |-> checks, warnings |-> warnings_of(track),
         track |-> track, reason |-> ""]

\* {'valid': False, 'reason': ...} as returned at lines 47 and 126
validation_failure(reason) ==
    [valid |-> FALSE, checks |-> <<>>, warnings |-> <<>>, track |-> NoRecord,
     reason |-> reason]

(* -------------------------- Promotion Executor ------------------------ *)
\* str.replace(DEV_MEDIA_BUCKET, PROD_MEDIA_BUCKET) on the URL's parts
ReplaceBucket(url) ==
    [i \in 1..Len(url) |-> IF url[i] = "dev-media" THEN "prod-media" ELSE url[i]]

\* mutant: the copy keeps the staging environment and URL
_create_prod_metadata_unlabelled(dev_track) ==
    [dev_track EXCEPT !.has = @ \cup {"promotedFrom", "promotedAt", "environment"},
                      !.promotedFrom = "dev", !.promotedAt = now]

\* _create_prod_metadata, lines 294-309
_create_prod_metadata(dev_track) ==
    [dev_track EXCEPT !.has = @ \cup {"promotedFrom", "promotedAt", "environment"},
                      !.promotedFrom = "dev", !.promotedAt = now,
                      !.environment = "prod",
                      !.fileUrl = IF "fileUrl" \in dev_track.has
                                  THEN ReplaceBucket(@) ELSE @]

\* mutant: the guard of line 136 is missing
validation_permits_always(v) == TRUE

\* the guard of promote_content_to_prod, line 136
validation_permits(v) == v.valid

(* --------------------------- Batch Scheduler -------------------------- *)
\* FilterExpression of the scan, lines 43-51
scan_filter(item) ==
    /\ "status" \in item.has /\ item.status = "processed"
    /\ "promotionStatus" \notin item.has

\* mutant: the record must be older than the grace period
old_enough_strict(item) ==
    (now - item.createdDate) * 60 > MinAgeHours * 3600

\* age_hours >= 1, lines 55-58 (the clock counts minutes)
old_enough(item) ==
    (now - item.createdDate) * 60 >= MinAgeHours * 3600

RECURSIVE scan_from(_, _)
scan_from(table, i) ==
    IF i \notin DOMAIN table THEN <<>>
    ELSE (IF table[i] # NoRecord /\ scan_filter(table[i]) /\ old_enough(table[i])
          THEN <<i>> ELSE <<>>) \o scan_from(table, i + 1)

\* the candidates a successful scan returns, in the table's scan order
scan_candidates(table) == scan_from(table, 1)

Min(a, b) == IF a < b THEN a ELSE b
Max(a, b) == IF a > b THEN a ELSE b

\* mutant: the batch loop ignores max_promotions
slice_candidates_all(c, m) == c

\* candidates[:max_promotions], line 279 (Python slice semantics)
slice_candidates(c, m) ==
    IF m >= 0 THEN SubSeq(c, 1, Min(Len(c), m))
    ELSE SubSeq(c, 1, Max(0, Len(c) + m))

\* mutant: the rescheduling condition forgets the failed workflows
needs_follow_up_promoted_only(b) == b.scanned > b.promoted

\* the handler's rescheduling condition, line 398
needs_follow_up(b) == b.scanned > b.promoted + b.failed

\* mutant: the workflow reports success whatever its steps returned
all_steps_succeed_always(steps) == TRUE

\* all(step['success'] for step in steps), line 243
all_steps_succeed(steps) == \A i \in 1..Len(steps) : steps[i].success

SeqToSet(s) == {s[i] : i \in 1..Len(s)}


(* ------------------------------- state -------------------------------- *)
Configs ==
    { [dev_table |-> TRUE, prod_table |-> TRUE, topic |-> TRUE],
      [dev_table |-> TRUE, prod_table |-> FALSE, topic |-> TRUE],
      [dev_table |-> FALSE, prod_table |-> TRUE, topic |-> FALSE] }

InitItems(t) ==
    IF t = Unknown THEN {NoRecord}
    ELSE { Item(t, 0, "processed", 30 * PerSecond, 2000000),
           Item(t, 0, "processing", 30 * PerSecond, 2000000) }

NoValidation == validation_failure("none")
NoResponse == [statusCode |-> 0, readyForPromotion |-> FALSE, promotion |-> FALSE]

\* maxIsInt: whether the event's maxPromotions is an integer (it can be any
\* JSON value, for instance the string "5")
IdleCmd == [action |-> "none", trackId |-> NoTrack, maxPromotions |-> 0,
            maxIsInt |-> TRUE, autoPromote |-> FALSE]

\* a content-promoter invocation: handler(event) or a direct method call
NewPr(payload, caller) ==
    [trackId |-> payload.trackId, autoPromote |-> payload.autoPromote,
     caller |-> caller, v |-> NoValidation,
     todo |-> <<>>, copied |-> <<>>, calls |-> <<>>, failed |-> "",
     outcome |-> "none", resp |-> NoResponse]

\* the event of the content promoter: {'trackId': ..., 'autoPromote': ...}
Payload(t, auto) == [trackId |-> t, autoPromote |-> auto]

\* mutant: the validation stage asks the promoter to promote
validate_payload_auto(t) == Payload(t, TRUE)

\* payload of validate_promotion_candidate, lines 81-84
validate_payload(t) == Payload(t, FALSE)

\* payload of execute_promotion, lines 122-125
execute_payload(t) == Payload(t, TRUE)

IdlePr == NewPr(Payload(NoTrack, FALSE), "none")

\* workflow_result, lines 199-204, with the stage counters observed on it
NewWf(t) ==
    [trackId |-> t, steps |-> <<>>, success |-> FALSE, error |-> "",
     stages |-> <<>>, validations |-> 0, promotions |-> 0, done |-> FALSE]

\* the workflow as it enters its first stage, line 209
StartWf(t) == [NewWf(t) EXCEPT !.stages = <<"validation">>]

IdleWf == NewWf(NoTrack)

\* batch_result, lines 259-270, with the handler's scheduling calls observed on it
NewBatch(m) ==
    [maxPromotions |-> m, scanned |-> 0, promoted |-> 0, failed |-> 0,
     promotions |-> <<>>, error |-> "", publishCalls |-> 0, ruleCalls |-> 0,
     registered |-> 0, done |-> FALSE]

IdleBatch == NewBatch(0)

Init ==
    /\ now = 30
    /\ cfg \in Configs
    /\ devTable \in [Ids -> UNION {InitItems(t) : t \in Ids}]
    /\ \A t \in Ids : devTable[t] \in InitItems(t)
    /\ Cardinality({t \in Tracks : devTable[t].status # "processed"}) <= 1
    /\ devBucket = [t \in Ids |-> IF t = Unknown THEN {} ELSE Files]
    /\ prodTable = [t \in Ids |-> NoRecord]
    /\ prodBucket = [t \in Ids |-> {}]
    /\ active = {"A"}
    /\ pc = [r \in Runs |-> "idle"]
    /\ cmd = [r \in Runs |-> IdleCmd]
    /\ candidates = [r \in Runs |-> <<>>]
    /\ batch = [r \in Runs |-> IdleBatch]
    /\ wf = [r \in Runs |-> IdleWf]
    /\ pr = [r \in Runs |-> IdlePr]
    /\ result = [r \in Runs |-> 0]
    /\ faults = FALSE
    /\ cmds = MaxCommands
    /\ promoteOk = {}

\* the outcomes an external call can have
Outcomes == {"ok", "fail"}
Count(o) == faults' = (faults \/ o = "fail")


Set(f, r, x) == [f EXCEPT ![r] = x]
Call(name, o) == [call |-> name, ok |-> (o = "ok"), detail |-> ""]
InWorkflow(p) == p.caller \in {"validate", "execute"}

(* --------------------- orchestrator: entry points --------------------- *)
MaxPromotionsChoices == {-1, 0, 1, DefaultMaxPromotions}

Ready(r) == r \in active /\ pc[r] = "idle" /\ cmds > 0

\* handler, action == 'batch_promotion', lines 392-395
handler_batch_promotion(r, m) ==
    /\ Ready(r)
    /\ cmds' = cmds - 1
    /\ cmd' = Set(cmd, r, [IdleCmd EXCEPT !.action = "batch_promotion",
                                           !.maxPromotions = m])
    /\ batch' = Set(batch, r, NewBatch(m))
    /\ candidates' = Set(candidates, r, <<>>)
    /\ wf' = Set(wf, r, IdleWf)
    /\ pr' = Set(pr, r, IdlePr)
    /\ result' = Set(result, r, 0)
    /\ pc' = Set(pc, r, "scan")
    /\ faults' = FALSE
    /\ UNCHANGED <<now, cfg, stores, active, promoteOk>>

\* handler, action == 'batch_promotion', with a maxPromotions that is a string
handler_batch_promotion_text(r) ==
    /\ Ready(r)
    /\ cmds' = cmds - 1
    /\ cmd' = Set(cmd, r, [IdleCmd EXCEPT !.action = "batch_promotion",
                                           !.maxIsInt = FALSE])
    /\ batch' = Set(batch, r, NewBatch(0))
    /\ candidates' = Set(candidates, r, <<>>)
    /\ wf' = Set(wf, r, IdleWf)
    /\ pr' = Set(pr, r, IdlePr)
    /\ result' = Set(result, r, 0)
    /\ pc' = Set(pc, r, "scan")
    /\ faults' = FALSE
    /\ UNCHANGED <<now, cfg, stores, active, promoteOk>>

\* handler, action == 'scan_candidates', lines 422-424
handler_scan_candidates(r) ==
    /\ Ready(r)
    /\ cmds' = cmds - 1
    /\ cmd' = Set(cmd, r, [IdleCmd EXCEPT !.action = "scan_candidates"])
    /\ batch' = Set(batch, r, IdleBatch)
    /\ candidates' = Set(candidates, r, <<>>)
    /\ wf' = Set(wf, r, IdleWf)
    /\ pr' = Set(pr, r, IdlePr)
    /\ result' = Set(result, r, 0)
    /\ pc' = Set(pc, r, "scan")
    /\ faults' = FALSE
    /\ UNCHANGED <<now, cfg, stores, active, promoteOk>>

\* handler, action == 'single_promotion', lines 406-415
handler_single_promotion(r, t) ==
    /\ Ready(r)
    /\ cmds' = cmds - 1
    /\ cmd' = Set(cmd, r, [IdleCmd EXCEPT !.action = "single_promotion",
                                           !.trackId = t])
    /\ batch' = Set(batch, r, IdleBatch)
    /\ candidates' = Set(candidates, r, <<>>)
    /\ IF t = NoTrack
       THEN /\ result' = Set(result, r, 400)
            /\ wf' = Set(wf, r, IdleWf)
            /\ pr' = Set(pr, r, IdlePr)
            /\ pc' = pc
       ELSE /\ result' = Set(result, r, 0)
            /\ wf' = Set(wf, r, StartWf(t))
            /\ pr' = Set(pr, r, NewPr(validate_payload(t), "validate"))
            /\ pc' = Set(pc, r, "query")
    /\ faults' = FALSE
    /\ UNCHANGED <<now, cfg, stores, active, promoteOk>>

(* ------------------- content promoter: entry points ------------------- *)
\* content-promoter handler invoked directly with {'trackId', 'autoPromote'}
promoter_handler(r, t, auto) ==
    /\ Ready(r)
    /\ cmds' = cmds - 1
    /\ cmd' = Set(cmd, r, [IdleCmd EXCEPT !.action = "promoter", !.trackId = t,
                                           !.autoPromote = auto])
    /\ batch' = Set(batch, r, IdleBatch)
    /\ candidates' = Set(candidates, r, <<>>)
    /\ wf' = Set(wf, r, IdleWf)
    /\ pr' = Set(pr, r, NewPr(Payload(t, auto), "direct"))
    /\ result' = Set(result, r, 0)
    /\ pc' = Set(pc, r, "query")
    /\ faults' = FALSE
    /\ UNCHANGED <<now, cfg, stores, active, promoteOk>>

\* promote_content_to_prod called with a validation result that is not valid
promote_unvalidated(r, t) ==
    /\ Ready(r)
    /\ cmds' = cmds - 1
    /\ cmd' = Set(cmd, r, [IdleCmd EXCEPT !.action = "promote", !.trackId = t,
                                           !.autoPromote = TRUE])
    /\ batch' = Set(batch, r, IdleBatch)
    /\ candidates' = Set(candidates, r, <<>>)
    /\ wf' = Set(wf, r, IdleWf)
    /\ pr' = Set(pr, r, [NewPr(Payload(t, TRUE), "call") EXCEPT
                           !.v = validation_failure("Track not found in DEV environment")])
    /\ result' = Set(result, r, 0)
    /\ pc' = Set(pc, r, "list_copy")
    /\ faults' = FALSE
    /\ UNCHANGED <<now, cfg, stores, active, promoteOk>>

(* ----------------------- workflow and batch glue ---------------------- *)
\* the content-promoter handler returns `resp` (lines 368-394, 440-445)
promoter_returns(r, p, resp) ==
    IF p.caller = "direct"
    THEN /\ pr' = Set(pr, r, [p EXCEPT !.resp = resp])
         /\ pc' = Set(pc, r, "idle")
         /\ result' = Set(result, r, resp.statusCode)
    ELSE /\ pr' = Set(pr, r, [p EXCEPT !.resp = resp])
         /\ pc' = Set(pc, r, "invoke_return")
         /\ UNCHANGED result

Response(code, ready, promotion) ==
    [statusCode |-> code, readyForPromotion |-> ready, promotion |-> promotion]

\* mutant: a workflow whose validation failed is run again from the start
finish_workflow_retry(r, w) ==
    /\ UNCHANGED batch
    /\ IF Len(w.steps) = 1 /\ Len(w.stages) < 3
       THEN /\ wf' = Set(wf, r, [w EXCEPT !.steps = <<>>,
                                          !.stages = Append(@, "validation")])
            /\ pr' = Set(pr, r, NewPr(validate_payload(w.trackId), "validate"))
            /\ pc' = Set(pc, r, "query")
            /\ UNCHANGED result
       ELSE /\ wf' = Set(wf, r, [w EXCEPT !.done = TRUE])
            /\ pr' = Set(pr, r, IdlePr)
            /\ IF cmd[r].action = "single_promotion"
               THEN /\ pc' = Set(pc, r, "idle")
                    /\ result' = Set(result, r, 200)
               ELSE /\ pc' = Set(pc, r, "loop")
                    /\ UNCHANGED result

\* mutant: the batch loop breaks at the first workflow that fails
finish_workflow_break(r, w) ==
    /\ wf' = Set(wf, r, [w EXCEPT !.done = TRUE])
    /\ pr' = Set(pr, r, IdlePr)
    /\ IF cmd[r].action = "single_promotion"
       THEN /\ pc' = Set(pc, r, "idle")
            /\ result' = Set(result, r, 200)
            /\ UNCHANGED batch
       ELSE /\ UNCHANGED result
            /\ IF w.success
               THEN /\ pc' = Set(pc, r, "loop")
                    /\ UNCHANGED batch
               ELSE /\ pc' = Set(pc, r, "batch_publish")
                    /\ batch' = Set(batch, r, [batch[r] EXCEPT
                                 !.promotions = Append(@, [trackId |-> w.trackId, success |-> FALSE]),
                                 !.failed = @ + 1])

\* process_promotion_workflow returns `w` (lines 218, 231, 252-253) to the
\* handler (lines 415-420) or to the loop of process_batch_promotion
finish_workflow(r, w) ==
    /\ wf' = Set(wf, r, [w EXCEPT !.done = TRUE])
    /\ pr' = Set(pr, r, IdlePr)
    /\ UNCHANGED batch
    /\ IF cmd[r].action = "single_promotion"
       THEN /\ pc' = Set(pc, r, "idle")
            /\ result' = Set(result, r, 200)
       ELSE /\ pc' = Set(pc, r, "loop")
            /\ UNCHANGED result

\* the loop of process_batch_promotion, lines 279-290: count the workflow
\* that has just returned and go on to the next candidate
process_batch_promotion(r) ==
    /\ r \in active /\ pc[r] = "loop"
    /\ LET w == wf[r]
           b == [batch[r] EXCEPT
                   !.promotions = Append(@, [trackId |-> w.trackId, success |-> w.success]),
                   !.promoted = IF w.success THEN @ + 1 ELSE @,
                   !.failed = IF w.success THEN @ ELSE @ + 1]
           todo == slice_candidates(candidates[r], b.maxPromotions)
           n == Len(b.promotions)
       IN  /\ batch' = Set(batch, r, b)
           /\ IF n < Len(todo)
              THEN /\ wf' = Set(wf, r, StartWf(todo[n + 1]))
                   /\ pr' = Set(pr, r, NewPr(validate_payload(todo[n + 1]), "validate"))
                   /\ pc' = Set(pc, r, "query")
              ELSE /\ wf' = Set(wf, r, IdleWf)
                   /\ pr' = Set(pr, r, IdlePr)
                   /\ pc' = Set(pc, r, "batch_publish")
    /\ UNCHANGED <<now, cfg, stores, active, cmd, candidates, result, faults, cmds, promoteOk>>

\* mutant: the except clause of process_batch_promotion only logs
batch_error_dropped(b, e) == b

\* except Exception as e: batch_result['error'] = str(e), lines 295-297
batch_error(b, e) == [b EXCEPT !.error = e]

\* scan_for_promotion_candidates, lines 31-73, and what its caller does next
scan_for_promotion_candidates(r, o) ==
    /\ r \in active /\ pc[r] = "scan"
    /\ o \in Outcomes
    /\ cfg.dev_table \/ o = "ok"
    /\ Count(o)
    /\ LET found == IF cfg.dev_table /\ o = "ok"
                    THEN scan_candidates(devTable) ELSE <<>>
           todo == slice_candidates(found, batch[r].maxPromotions)
       IN  /\ candidates' = Set(candidates, r, found)
           /\ IF cmd[r].action = "scan_candidates"
              THEN /\ result' = Set(result, r, 200)
                   /\ pc' = Set(pc, r, "idle")
                   /\ UNCHANGED <<batch, wf, pr>>
              ELSE IF ~cmd[r].maxIsInt
              \* candidates[:max_promotions] raises TypeError (line 279): the
              \* batch ends at line 297 and the handler goes on at line 398
              THEN LET b == batch_error([batch[r] EXCEPT !.scanned = Len(found)],
                                        "slice indices must be integers")
                   IN  /\ UNCHANGED <<wf, pr>>
                       /\ IF needs_follow_up(b)
                          THEN /\ batch' = Set(batch, r, b)
                               /\ pc' = Set(pc, r, "put_rule")
                               /\ UNCHANGED result
                          ELSE /\ batch' = Set(batch, r, [b EXCEPT !.done = TRUE])
                               /\ pc' = Set(pc, r, "idle")
                               /\ result' = Set(result, r, 200)
              ELSE /\ batch' = Set(batch, r, [batch[r] EXCEPT !.scanned = Len(found)])
                   /\ UNCHANGED result
                   /\ IF todo # <<>>
                      THEN /\ wf' = Set(wf, r, StartWf(todo[1]))
                           /\ pr' = Set(pr, r, NewPr(validate_payload(todo[1]), "validate"))
                           /\ pc' = Set(pc, r, "query")
                      ELSE /\ pc' = Set(pc, r, "batch_publish")
                           /\ UNCHANGED <<wf, pr>>
    /\ UNCHANGED <<now, cfg, stores, active, cmd, cmds, promoteOk>>


(* --------------------------- content promoter ------------------------- *)
\* validate_content_for_promotion, lines 31-60: the metadata query
validate_content_for_promotion(r, o) ==
    /\ r \in active /\ pc[r] = "query"
    /\ o \in Outcomes
    /\ cfg.dev_table \/ o = "ok"
    /\ Count(o)
    /\ LET p == [pr[r] EXCEPT
                   !.calls = IF cfg.dev_table THEN Append(@, Call("query", o)) ELSE @]
           t == p.trackId
       IN  /\ wf' = IF InWorkflow(p)
                    THEN Set(wf, r, [wf[r] EXCEPT !.validations = @ + 1])
                    ELSE wf
           /\ IF ~cfg.dev_table \/ o = "fail"
              THEN promoter_returns(r, [p EXCEPT !.v = validation_failure("Validation error")],
                                    Response(400, FALSE, FALSE))
              ELSE IF devTable[t] = NoRecord
              THEN promoter_returns(r, [p EXCEPT !.v = validation_failure("Track not found in DEV environment")],
                                    Response(400, FALSE, FALSE))
              ELSE /\ pr' = Set(pr, r, [p EXCEPT !.v.track = devTable[t]])
                   /\ pc' = Set(pc, r, "list_check")
                   /\ UNCHANGED result
    /\ UNCHANGED <<now, cfg, stores, active, cmd, candidates, batch, cmds, promoteOk>>

\* _check_file_exists_in_bucket, lines 182-196, the rest of the validation
\* (lines 62-122) and the handler's branch on its result (lines 364-394)
_check_file_exists_in_bucket(r, o) ==
    /\ r \in active /\ pc[r] = "list_check"
    /\ o \in Outcomes
    /\ Count(o)
    /\ LET p == pr[r]
           file_exists == o = "ok" /\ devBucket[p.trackId] # {}
           v == validation_results(p.v.track, file_exists)
           q == [p EXCEPT !.v = v, !.calls = Append(@, Call("list_check", o))]
       IN  IF v.valid
           THEN IF p.autoPromote
                THEN /\ pr' = Set(pr, r, q)
                     /\ pc' = Set(pc, r, "list_copy")
                     /\ UNCHANGED result
                ELSE promoter_returns(r, q, Response(200, TRUE, FALSE))
           ELSE promoter_returns(r, q, Response(400, FALSE, FALSE))
    /\ UNCHANGED <<now, cfg, stores, active, cmd, candidates, batch, wf, cmds, promoteOk>>

\* mutant: the exception of a promote step is logged and promote goes on
Raised_swallowed(p, step) == [p EXCEPT !.outcome = "success", !.failed = step]

\* a step of promote_content_to_prod raised: lines 170-178 run next
Raised(p, step) == [p EXCEPT !.outcome = "error", !.failed = step]

\* mutant: the production insert is never made
after_copy_skip == "update_item"

\* the step after the copy loop: put_item only if PROD table is configured
after_copy == IF cfg.prod_table THEN "put_item" ELSE "update_item"

RECURSIVE SortedSeq(_)
SortedSeq(S) ==
    IF S = {} THEN <<>>
    ELSE LET m == CHOOSE x \in S : \A y \in S : x <= y
         IN  <<m>> \o SortedSeq(S \ {m})

\* promote_content_to_prod, lines 131-142, and the listing of
\* _copy_audio_files, lines 246-257
_copy_audio_files_list(r, o) ==
    /\ r \in active /\ pc[r] = "list_copy"
    /\ o \in Outcomes
    /\ validation_permits(pr[r].v) \/ o = "ok"
    /\ Count(o)
    /\ LET p == [pr[r] EXCEPT !.outcome = "running"]
           listed == SortedSeq(devBucket[p.trackId])
       IN  /\ wf' = IF InWorkflow(p)
                    THEN Set(wf, r, [wf[r] EXCEPT !.promotions = @ + 1])
                    ELSE wf
           /\ IF ~validation_permits(p.v)
              THEN /\ pr' = Set(pr, r, Raised(p, "validation"))
                   /\ pc' = Set(pc, r, "publish")
              ELSE IF o = "fail"
              THEN /\ pr' = Set(pr, r, Raised([p EXCEPT !.calls = Append(@, Call("list", o))], "copy"))
                   /\ pc' = Set(pc, r, "publish")
              ELSE /\ pr' = Set(pr, r, [p EXCEPT !.calls = Append(@, Call("list", o)),
                                                  !.todo = listed])
                   /\ pc' = Set(pc, r, IF listed = <<>> THEN after_copy ELSE "copy")
    /\ UNCHANGED <<now, cfg, stores, active, cmd, candidates, batch, result, cmds, promoteOk>>

\* one iteration of the loop of _copy_audio_files, lines 257-286; copy_object
\* raises when the source object is no longer in the DEV bucket
_copy_audio_files(r, o) ==
    /\ r \in active /\ pc[r] = "copy"
    /\ o \in Outcomes
    /\ Head(pr[r].todo) \in devBucket[pr[r].trackId] \/ o = "fail"
    /\ Count(o)
    /\ LET p == pr[r]
           t == p.trackId
           f == Head(p.todo)
           q == [p EXCEPT !.calls = Append(@, Call("copy_object", o))]
       IN  IF o = "fail"
           THEN /\ pr' = Set(pr, r, Raised(q, "copy"))
                /\ pc' = Set(pc, r, "publish")
                /\ UNCHANGED prodBucket
           ELSE /\ prodBucket' = [prodBucket EXCEPT ![t] = @ \cup {f}]
                /\ pr' = Set(pr, r, [q EXCEPT !.todo = Tail(@),
                                               !.copied = Append(@, f)])
                /\ pc' = Set(pc, r, IF Tail(p.todo) = <<>> THEN after_copy ELSE "copy")
    /\ UNCHANGED <<now, cfg, devTable, devBucket, prodTable, active, cmd, candidates,
                   batch, wf, result, cmds, promoteOk>>

\* prod_table.put_item(Item=prod_metadata), lines 144-148
prod_table_put_item(r, o) ==
    /\ r \in active /\ pc[r] = "put_item"
    /\ o \in Outcomes
    /\ Count(o)
    /\ LET p == [pr[r] EXCEPT !.calls = Append(@, Call("put_item", o))]
       IN  IF o = "fail"
           THEN /\ pr' = Set(pr, r, Raised(p, "put_item"))
                /\ pc' = Set(pc, r, "publish")
                /\ UNCHANGED prodTable
           ELSE /\ prodTable' = [prodTable EXCEPT ![p.trackId] = _create_prod_metadata(p.v.track)]
                /\ pr' = Set(pr, r, p)
                /\ pc' = Set(pc, r, "update_item")
    /\ UNCHANGED <<now, cfg, devTable, devBucket, prodBucket, active, cmd, candidates,
                   batch, wf, result, cmds, promoteOk>>

\* mutant: the update also overwrites the record's status
marked_status(item, t, created) ==
    LET base == IF item = NoRecord
                THEN [Item(t, created, "", 0, 0) EXCEPT !.has = {"id", "createdDate"}]
                ELSE item
    IN  [base EXCEPT !.has = @ \cup {"promotionStatus", "promotedAt"},
                     !.status = "promoted",
                     !.promotionStatus = "promoted", !.promotedAt = now]

\* the item update_item leaves under the key (id, createdDate): SET on an
\* existing item adds the two attributes, on a missing key it creates the item
marked(item, t, created) ==
    LET base == IF item = NoRecord
                THEN [Item(t, created, "", 0, 0) EXCEPT !.has = {"id", "createdDate"}]
                ELSE item
    IN  [base EXCEPT !.has = @ \cup {"promotionStatus", "promotedAt"},
                     !.promotionStatus = "promoted", !.promotedAt = now]

\* _update_dev_promotion_status, lines 311-327, then lines 153-159
_update_dev_promotion_status(r, o) ==
    /\ r \in active /\ pc[r] = "update_item"
    /\ o \in Outcomes
    /\ cfg.dev_table \/ o = "ok"
    /\ Count(o)
    /\ LET p == pr[r]
           t == p.trackId
       IN  /\ devTable' = IF cfg.dev_table /\ o = "ok"
                          THEN [devTable EXCEPT ![t] = marked(@, t, p.v.track.createdDate)]
                          ELSE devTable
           /\ pr' = Set(pr, r, [p EXCEPT
                    !.calls = IF cfg.dev_table THEN Append(@, Call("update_item", o)) ELSE @,
                    !.outcome = "success"])
           /\ pc' = Set(pc, r, "publish")
    /\ UNCHANGED <<now, cfg, devBucket, prodTable, prodBucket, active, cmd, candidates,
                   batch, wf, result, cmds, promoteOk>>

\* mutant: the failure path sends the success notification
notification_success_only(p, o) == Call("publish_success", o)

\* the message handed to sns_client.publish: the success notification of
\* lines 162-166 or the failure notification of lines 174-178 with str(e)
notification(p, o) ==
    IF p.outcome = "success"
    THEN Call("publish_success", o)
    ELSE [Call("publish_failure", o) EXCEPT !.detail = p.failed]

\* _send_notification, lines 329-348, called at line 162 or 174; then
\* promote_content_to_prod returns (168) or re-raises (180) to its caller
_send_notification(r, o) ==
    /\ r \in active /\ pc[r] = "publish"
    /\ o \in Outcomes
    /\ cfg.topic \/ o = "ok"
    /\ Count(o)
    /\ LET p == pr[r]
           ok == p.outcome = "success"
           q == [p EXCEPT
                   !.calls = IF cfg.topic THEN Append(@, notification(p, o)) ELSE @,
                   !.outcome = IF ok THEN "returned" ELSE "raised"]
       IN  /\ promoteOk' = IF ok THEN promoteOk \cup {p.trackId} ELSE promoteOk
           /\ IF p.caller = "call"
              THEN /\ pr' = Set(pr, r, q)
                   /\ pc' = Set(pc, r, "idle")
                   /\ UNCHANGED result
              ELSE promoter_returns(r, q, IF ok THEN Response(200, FALSE, TRUE)
                                                ELSE Response(500, FALSE, FALSE))
    /\ UNCHANGED <<now, cfg, stores, active, cmd, candidates, batch, wf, cmds>>


(* ------------------------- promotion workflow ------------------------- *)
Step(name, success) == [step |-> name, success |-> success]

\* mutant: the workflow goes on whatever the validation returned
validate_promotion_candidate_always(resp, o) == TRUE

\* what validate_promotion_candidate makes of the response, lines 92-114
validate_promotion_candidate(resp, o) ==
    o = "ok" /\ resp.statusCode = 200 /\ resp.readyForPromotion

\* mutant: the promotion stage reads the flag of the validation response
execute_promotion_ready(resp, o) ==
    o = "ok" /\ resp.statusCode = 200 /\ resp.readyForPromotion

\* what execute_promotion makes of the response, lines 133-155
execute_promotion(resp, o) ==
    o = "ok" /\ resp.statusCode = 200

\* lambda_client.invoke of the content promoter returns or raises:
\* validate_promotion_candidate (lines 75-114) with lines 209-218, or
\* execute_promotion (lines 116-155) with lines 222-231
lambda_invoke_returns(r, o) ==
    /\ r \in active /\ pc[r] = "invoke_return"
    /\ o \in Outcomes
    /\ Count(o)
    /\ LET p == pr[r]
           resp == p.resp
           w == wf[r]
       IN  IF p.caller = "validate"
           THEN LET valid == validate_promotion_candidate(resp, o)
                    w1 == [w EXCEPT !.steps = Append(@, Step("validation", valid))]
                IN  IF ~valid
                    THEN finish_workflow(r, [w1 EXCEPT !.error = "Validation failed"])
                    ELSE /\ wf' = Set(wf, r, [w1 EXCEPT !.stages = Append(@, "promotion")])
                         /\ pr' = Set(pr, r, NewPr(execute_payload(w.trackId), "execute"))
                         /\ pc' = Set(pc, r, "query")
                         /\ UNCHANGED <<batch, result>>
           ELSE LET success == execute_promotion(resp, o)
                    w1 == [w EXCEPT !.steps = Append(@, Step("promotion", success))]
                IN  IF ~success
                    THEN finish_workflow(r, [w1 EXCEPT !.error = "Promotion failed"])
                    ELSE /\ wf' = Set(wf, r, w1)
                         /\ pr' = Set(pr, r, IdlePr)
                         /\ pc' = Set(pc, r, "tests")
                         /\ UNCHANGED <<batch, result>>
    /\ UNCHANGED <<now, cfg, stores, active, cmd, candidates, cmds, promoteOk>>

\* run_post_promotion_tests, lines 157-195, with lines 235-253
run_post_promotion_tests(r, o) ==
    /\ r \in active /\ pc[r] = "tests"
    /\ o \in Outcomes
    /\ Count(o)
    /\ LET w1 == [wf[r] EXCEPT !.stages = Append(@, "testing"),
                                !.steps = Append(@, Step("testing", o = "ok"))]
           ok == all_steps_succeed(w1.steps)
       IN  finish_workflow(r, [w1 EXCEPT !.success = ok,
                                         !.error = IF ok THEN "" ELSE "Post-promotion tests failed"])
    /\ UNCHANGED <<now, cfg, stores, active, cmd, candidates, cmds, promoteOk>>

(* --------------------------- batch scheduler -------------------------- *)
\* send_batch_notification, lines 302-345, then the handler's lines 397-404
send_batch_notification(r, o) ==
    /\ r \in active /\ pc[r] = "batch_publish"
    /\ o \in Outcomes
    /\ cfg.topic \/ o = "ok"
    /\ Count(o)
    /\ LET b == [batch[r] EXCEPT !.publishCalls = IF cfg.topic THEN @ + 1 ELSE @]
       IN  IF needs_follow_up(b)
           THEN /\ batch' = Set(batch, r, b)
                /\ pc' = Set(pc, r, "put_rule")
                /\ UNCHANGED result
           ELSE /\ batch' = Set(batch, r, [b EXCEPT !.done = TRUE])
                /\ pc' = Set(pc, r, "idle")
                /\ result' = Set(result, r, 200)
    /\ UNCHANGED <<now, cfg, stores, active, cmd, candidates, wf, pr, cmds, promoteOk>>

\* schedule_next_batch, lines 347-362: eventbridge put_rule
schedule_next_batch_rule(r, o) ==
    /\ r \in active /\ pc[r] = "put_rule"
    /\ o \in Outcomes
    /\ Count(o)
    /\ LET b == [batch[r] EXCEPT !.ruleCalls = @ + 1]
       IN  IF o = "ok"
           THEN /\ batch' = Set(batch, r, b)
                /\ pc' = Set(pc, r, "put_targets")
                /\ UNCHANGED result
           ELSE /\ batch' = Set(batch, r, [b EXCEPT !.done = TRUE])
                /\ pc' = Set(pc, r, "idle")
                /\ result' = Set(result, r, 200)
    /\ UNCHANGED <<now, cfg, stores, active, cmd, candidates, wf, pr, cmds, promoteOk>>

\* schedule_next_batch, lines 364-383: eventbridge put_targets
schedule_next_batch_targets(r, o) ==
    /\ r \in active /\ pc[r] = "put_targets"
    /\ o \in Outcomes
    /\ Count(o)
    /\ batch' = Set(batch, r, [batch[r] EXCEPT
                                 !.registered = IF o = "ok" THEN @ + 1 ELSE @,
                                 !.done = TRUE])
    /\ pc' = Set(pc, r, "idle")
    /\ result' = Set(result, r, 200)
    /\ UNCHANGED <<now, cfg, stores, active, cmd, candidates, wf, pr, cmds, promoteOk>>

(* ----------------------------- environment ---------------------------- *)
\* time passes, half an hour at a time: longer than any invocation can run
Tick ==
    /\ \A r \in Runs : pc[r] = "idle"
    /\ now + 30 <= MaxNow
    /\ now' = now + 30
    /\ UNCHANGED <<cfg, stores, active, pc, cmd, candidates, batch, wf, pr, result,
                   faults, cmds, promoteOk>>

\* cleanup tooling deletes the staging objects of one track
\* (test-utils/audio_test_utils.py:263-272)
cleanup_test_data(t) ==
    /\ \A u \in Tracks : devBucket[u] # {}
    /\ devBucket' = [devBucket EXCEPT ![t] = {}]
    /\ UNCHANGED <<now, cfg, devTable, prodTable, prodBucket, active, pc, cmd,
                   candidates, batch, wf, pr, result, faults, cmds, promoteOk>>

Next ==
    \/ \E r \in Runs, m \in MaxPromotionsChoices : handler_batch_promotion(r, m)
    \/ \E r \in Runs : handler_batch_promotion_text(r)
    \/ \E r \in Runs : handler_scan_candidates(r)
    \/ \E r \in Runs, t \in Ids \cup {NoTrack} : handler_single_promotion(r, t)
    \/ \E r \in Runs, t \in Ids, auto \in BOOLEAN : promoter_handler(r, t, auto)
    \/ \E r \in Runs, t \in Tracks : promote_unvalidated(r, t)
    \/ \E r \in Runs, o \in {"ok", "fail"} : scan_for_promotion_candidates(r, o)
    \/ \E r \in Runs, o \in {"ok", "fail"} : validate_content_for_promotion(r, o)
    \/ \E r \in Runs, o \in {"ok", "fail"} : _check_file_exists_in_bucket(r, o)
    \/ \E r \in Runs, o \in {"ok", "fail"} : _copy_audio_files_list(r, o)
    \/ \E r \in Runs, o \in {"ok", "fail"} : _copy_audio_files(r, o)
    \/ \E r \in Runs, o \in {"ok", "fail"} : prod_table_put_item(r, o)
    \/ \E r \in Runs, o \in {"ok", "fail"} : _update_dev_promotion_status(r, o)
    \/ \E r \in Runs, o \in {"ok", "fail"} : _send_notification(r, o)
    \/ \E r \in Runs, o \in {"ok", "fail"} : lambda_invoke_returns(r, o)
    \/ \E r \in Runs, o \in {"ok", "fail"} : run_post_promotion_tests(r, o)
    \/ \E r \in Runs : process_batch_promotion(r)
    \/ \E r \in Runs, o \in {"ok", "fail"} : send_batch_notification(r, o)
    \/ \E r \in Runs, o \in {"ok", "fail"} : schedule_next_batch_rule(r, o)
    \/ \E r \in Runs, o \in {"ok", "fail"} : schedule_next_batch_targets(r, o)
    \/ Tick
    \/ \E t \in Tracks : cleanup_test_data(t)

Spec == Init /\ [][Next]_vars

(* ------------- the validator and the scan on varied records ----------- *)
\* MetadataEnricher._update_dynamodb_metadata (metadata-enricher/index.py:
\* 307-359): the enriched record gets status 'enhanced'
_update_dynamodb_metadata(t) ==
    /\ devTable[t] # NoRecord
    /\ "status" \in devTable[t].has /\ devTable[t].status = "processed"
    /\ devTable' = [devTable EXCEPT ![t].status = "enhanced"]
    /\ UNCHANGED <<now, cfg, devBucket, prodTable, prodBucket, active, pc, cmd,
                   candidates, batch, wf, pr, result, faults, cmds, promoteOk>>

\* a record as the audio processor writes it, valid for promotion
Baseline(t) == Item(t, 0, "processed", 30 * PerSecond, 2000000)

\* the records the staging table can hold for one track: the baseline and
\* the records that differ from it in one respect (two for the last one)
RecordVariants(t) ==
    LET b == Baseline(t) IN
    {b}
    \cup {[b EXCEPT !.status = st] : st \in {"processing", "failed", "enhanced"}}
    \cup {Without(b, f) : f \in {"title", "filename", "fileUrl", "duration", "fileSize"}}
    \cup {[b EXCEPT !.title = ""]}
    \cup {[b EXCEPT !.duration = d] :
            d \in {0, MinDuration * PerSecond - 1, MinDuration * PerSecond,
                   MaxDuration * PerSecond, MaxDuration * PerSecond + 1,
                   (MaxDuration + 1) * PerSecond}}
    \cup {[b EXCEPT !.fileSize = z] :
            z \in {MinFileSize - 1, MinFileSize, MaxFileSize, MaxFileSize + 1}}
    \cup {[b EXCEPT !.duration = (MaxDuration + 1) * PerSecond, !.fileSize = MinFileSize - 1]}
    \cup {[b EXCEPT !.createdDate = 1]}
    \cup {[b EXCEPT !.fileUrl = <<"https://", "cloudfront-domain", "/media/track.wav">>]}
    \cup {marked(b, t, 0), marked([b EXCEPT !.status = "failed"], t, 0)}

\* the staging table with `v` as the record of track 1
RecordsWith(v) ==
    [t \in Ids |-> IF t = 1 THEN v ELSE IF t = Unknown THEN NoRecord ELSE Baseline(t)]

InitRecords ==
    /\ now = 30
    /\ cfg = [dev_table |-> TRUE, prod_table |-> TRUE, topic |-> TRUE]
    /\ \E v \in RecordVariants(1) : devTable = RecordsWith(v)
    /\ devBucket = [t \in Ids |-> IF t = Unknown THEN {} ELSE Files]
    /\ prodTable = [t \in Ids |-> NoRecord]
    /\ prodBucket = [t \in Ids |-> {}]
    /\ active = {"A"}
    /\ pc = [r \in Runs |-> "idle"]
    /\ cmd = [r \in Runs |-> IdleCmd]
    /\ candidates = [r \in Runs |-> <<>>]
    /\ batch = [r \in Runs |-> IdleBatch]
    /\ wf = [r \in Runs |-> IdleWf]
    /\ pr = [r \in Runs |-> IdlePr]
    /\ result = [r \in Runs |-> 0]
    /\ faults = FALSE
    /\ cmds = MaxCommands
    /\ promoteOk = {}

NextRecords ==
    \/ \E r \in Runs : handler_scan_candidates(r)
    \/ \E r \in Runs, auto \in BOOLEAN : promoter_handler(r, 1, auto)
    \/ \E r \in Runs, o \in {"ok", "fail"} : scan_for_promotion_candidates(r, o)
    \/ \E r \in Runs, o \in {"ok", "fail"} : validate_content_for_promotion(r, o)
    \/ \E r \in Runs, o \in {"ok", "fail"} : _check_file_exists_in_bucket(r, o)
    \/ \E r \in Runs, o \in {"ok", "fail"} : _copy_audio_files_list(r, o)
    \/ \E r \in Runs, o \in {"ok", "fail"} : _copy_audio_files(r, o)
    \/ \E r \in Runs, o \in {"ok", "fail"} : prod_table_put_item(r, o)
    \/ \E r \in Runs, o \in {"ok", "fail"} : _update_dev_promotion_status(r, o)
    \/ \E r \in Runs, o \in {"ok", "fail"} : _send_notification(r, o)
    \/ Tick
    \/ cleanup_test_data(1)
    \/ _update_dynamodb_metadata(1)

SpecRecords == InitRecords /\ [][NextRecords]_vars

(* --------------- two validations of the same artifact ----------------- *)
\* two invocations of the content promoter with autoPromote false, which
\* may overlap
InitValidate ==
    /\ now = 30
    /\ cfg = [dev_table |-> TRUE, prod_table |-> TRUE, topic |-> TRUE]
    /\ \E v \in RecordVariants(1) : devTable = RecordsWith(v)
    /\ devBucket = [t \in Ids |-> IF t = Unknown THEN {} ELSE Files]
    /\ prodTable = [t \in Ids |-> NoRecord]
    /\ prodBucket = [t \in Ids |-> {}]
    /\ active = {"A", "B"}
    /\ pc = [r \in Runs |-> "idle"]
    /\ cmd = [r \in Runs |-> IdleCmd]
    /\ candidates = [r \in Runs |-> <<>>]
    /\ batch = [r \in Runs |-> IdleBatch]
    /\ wf = [r \in Runs |-> IdleWf]
    /\ pr = [r \in Runs |-> IdlePr]
    /\ result = [r \in Runs |-> 0]
    /\ faults = FALSE
    /\ cmds = MaxCommands + 1
    /\ promoteOk = {}

NextValidate ==
    \/ \E r \in Runs, t \in {1, Unknown} : promoter_handler(r, t, FALSE)
    \/ \E r \in Runs, o \in {"ok", "fail"} : validate_content_for_promotion(r, o)
    \/ \E r \in Runs, o \in {"ok", "fail"} : _check_file_exists_in_bucket(r, o)
    \/ cleanup_test_data(1)

SpecValidate == InitValidate /\ [][NextValidate]_vars

(* ------------- repeated invocations for the same artifact -------------- *)
\* one more entry-point event than in Spec, all for track 1, on a staging
\* table of baseline records
InitRepeat ==
    /\ now = 30
    /\ cfg = [dev_table |-> TRUE, prod_table |-> TRUE, topic |-> TRUE]
    /\ devTable = RecordsWith(Baseline(1))
    /\ devBucket = [t \in Ids |-> IF t = Unknown THEN {} ELSE Files]
    /\ prodTable = [t \in Ids |-> NoRecord]
    /\ prodBucket = [t \in Ids |-> {}]
    /\ active = {"A"}
    /\ pc = [r \in Runs |-> "idle"]
    /\ cmd = [r \in Runs |-> IdleCmd]
    /\ candidates = [r \in Runs |-> <<>>]
    /\ batch = [r \in Runs |-> IdleBatch]
    /\ wf = [r \in Runs |-> IdleWf]
    /\ pr = [r \in Runs |-> IdlePr]
    /\ result = [r \in Runs |-> 0]
    /\ faults = FALSE
    /\ cmds = MaxCommands + 1
    /\ promoteOk = {}

NextRepeat ==
    \/ \E r \in Runs : handler_scan_candidates(r)
    \/ \E r \in Runs : handler_single_promotion(r, 1)
    \/ \E r \in Runs : promoter_handler(r, 1, TRUE)
    \/ \E r \in Runs, o \in {"ok", "fail"} : scan_for_promotion_candidates(r, o)
    \/ \E r \in Runs, o \in {"ok", "fail"} : validate_content_for_promotion(r, o)
    \/ \E r \in Runs, o \in {"ok", "fail"} : _check_file_exists_in_bucket(r, o)
    \/ \E r \in Runs, o \in {"ok", "fail"} : _copy_audio_files_list(r, o)
    \/ \E r \in Runs, o \in {"ok", "fail"} : _copy_audio_files(r, o)
    \/ \E r \in Runs, o \in {"ok", "fail"} : prod_table_put_item(r, o)
    \/ \E r \in Runs, o \in {"ok", "fail"} : _update_dev_promotion_status(r, o)
    \/ \E r \in Runs, o \in {"ok", "fail"} : _send_notification(r, o)
    \/ \E r \in Runs, o \in {"ok", "fail"} : lambda_invoke_returns(r, o)
    \/ \E r \in Runs, o \in {"ok", "fail"} : run_post_promotion_tests(r, o)
    \/ Tick

SpecRepeat == InitRepeat /\ [][NextRepeat]_vars

(* ------------------- a promotion that is tried again ------------------- *)
\* two invocations of the content promoter with autoPromote for track 1,
\* one after the other or overlapping
InitRetry ==
    /\ now = 30
    /\ cfg = [dev_table |-> TRUE, prod_table |-> TRUE, topic |-> TRUE]
    /\ devTable = RecordsWith(Baseline(1))
    /\ devBucket = [t \in Ids |-> IF t = Unknown THEN {} ELSE Files]
    /\ prodTable = [t \in Ids |-> NoRecord]
    /\ prodBucket = [t \in Ids |-> {}]
    /\ active = {"A", "B"}
    /\ pc = [r \in Runs |-> "idle"]
    /\ cmd = [r \in Runs |-> IdleCmd]
    /\ candidates = [r \in Runs |-> <<>>]
    /\ batch = [r \in Runs |-> IdleBatch]
    /\ wf = [r \in Runs |-> IdleWf]
    /\ pr = [r \in Runs |-> IdlePr]
    /\ result = [r \in Runs |-> 0]
    /\ faults = FALSE
    /\ cmds = MaxCommands + 1
    /\ promoteOk = {}

NextRetry ==
    \/ \E r \in Runs : promoter_handler(r, 1, TRUE)
    \/ \E r \in Runs, o \in {"ok", "fail"} : validate_content_for_promotion(r, o)
    \/ \E r \in Runs, o \in {"ok", "fail"} : _check_file_exists_in_bucket(r, o)
    \/ \E r \in Runs, o \in {"ok", "fail"} : _copy_audio_files_list(r, o)
    \/ \E r \in Runs, o \in {"ok", "fail"} : _copy_audio_files(r, o)
    \/ \E r \in Runs, o \in {"ok", "fail"} : prod_table_put_item(r, o)
    \/ \E r \in Runs, o \in {"ok", "fail"} : _update_dev_promotion_status(r, o)
    \/ \E r \in Runs, o \in {"ok", "fail"} : _send_notification(r, o)
    \/ Tick

SpecRetry == InitRetry /\ [][NextRetry]_vars

(* -------------------- the self-rescheduling loop ----------------------- *)
\* one track more than a follow-up run takes: the follow-up event carries no
\* maxPromotions (lines 372-376), so the handler uses its default (line 394)
LoopTracks == DefaultMaxPromotions + 1

\* a record that stays in the scan result and never passes validation
Unpromotable(t) == Without(Baseline(t), "title")

\* the first k records in scan order never pass validation, the others do;
\* all are old enough, and the clock stands still at MaxNow
InitLoop ==
    /\ now = MaxNow
    /\ cfg = [dev_table |-> TRUE, prod_table |-> TRUE, topic |-> TRUE]
    /\ \E k \in 0..LoopTracks :
          devTable = [t \in 1..LoopTracks |->
                        IF t <= k THEN Unpromotable(t) ELSE Baseline(t)]
    /\ devBucket = [t \in 1..LoopTracks |-> Files]
    /\ prodTable = [t \in 1..LoopTracks |-> NoRecord]
    /\ prodBucket = [t \in 1..LoopTracks |-> {}]
    /\ active = {"A"}
    /\ pc = [r \in Runs |-> "idle"]
    /\ cmd = [r \in Runs |-> IdleCmd]
    /\ candidates = [r \in Runs |-> <<>>]
    /\ batch = [r \in Runs |-> IdleBatch]
    /\ wf = [r \in Runs |-> IdleWf]
    /\ pr = [r \in Runs |-> IdlePr]
    /\ result = [r \in Runs |-> 0]
    /\ faults = FALSE
    /\ cmds = MaxCommands
    /\ promoteOk = {}

\* the one-shot rule registered by schedule_next_batch fires: the handler
\* runs with the target's Input {'action': 'batch_promotion', ...}
scheduled_batch_promotion(r) ==
    /\ r \in active /\ pc[r] = "idle"
    /\ batch[r].done /\ batch[r].registered > 0
    /\ cmd' = Set(cmd, r, [IdleCmd EXCEPT !.action = "batch_promotion",
                                           !.maxPromotions = DefaultMaxPromotions])
    /\ batch' = Set(batch, r, NewBatch(DefaultMaxPromotions))
    /\ candidates' = Set(candidates, r, <<>>)
    /\ wf' = Set(wf, r, IdleWf)
    /\ pr' = Set(pr, r, IdlePr)
    /\ result' = Set(result, r, 0)
    /\ pc' = Set(pc, r, "scan")
    /\ faults' = FALSE
    /\ UNCHANGED <<now, cfg, stores, active, cmds, promoteOk>>

\* the calls of a batch run, none of which fails
StepLoop ==
    \/ \E r \in Runs : scan_for_promotion_candidates(r, "ok")
    \/ \E r \in Runs : validate_content_for_promotion(r, "ok")
    \/ \E r \in Runs : _check_file_exists_in_bucket(r, "ok")
    \/ \E r \in Runs : _copy_audio_files_list(r, "ok")
    \/ \E r \in Runs : _copy_audio_files(r, "ok")
    \/ \E r \in Runs : prod_table_put_item(r, "ok")
    \/ \E r \in Runs : _update_dev_promotion_status(r, "ok")
    \/ \E r \in Runs : _send_notification(r, "ok")
    \/ \E r \in Runs : lambda_invoke_returns(r, "ok")
    \/ \E r \in Runs : run_post_promotion_tests(r, "ok")
    \/ \E r \in Runs : process_batch_promotion(r)
    \/ \E r \in Runs : send_batch_notification(r, "ok")
    \/ \E r \in Runs : schedule_next_batch_rule(r, "ok")
    \/ \E r \in Runs : schedule_next_batch_targets(r, "ok")

NextLoop ==
    \/ \E r \in Runs, m \in {1, DefaultMaxPromotions} : handler_batch_promotion(r, m)
    \/ \E r \in Runs : scheduled_batch_promotion(r)
    \/ StepLoop

\* every call returns and every registered rule fires
SpecLoop ==
    /\ InitLoop /\ [][NextLoop]_vars
    /\ WF_vars(StepLoop)
    /\ WF_vars(\E r \in Runs : scheduled_batch_promotion(r))

(* ------------------------ overlapping batch runs ----------------------- *)
\* two batch runs that take one candidate each and may overlap; no call
\* fails, the records are baseline records and old enough
InitOverlap ==
    /\ now = MaxNow
    /\ cfg = [dev_table |-> TRUE, prod_table |-> TRUE, topic |-> TRUE]
    /\ devTable = [t \in Ids |-> IF t = Unknown THEN NoRecord ELSE Baseline(t)]
    /\ devBucket = [t \in Ids |-> IF t = Unknown THEN {} ELSE Files]
    /\ prodTable = [t \in Ids |-> NoRecord]
    /\ prodBucket = [t \in Ids |-> {}]
    /\ active = {"A", "B"}
    /\ pc = [r \in Runs |-> "idle"]
    /\ cmd = [r \in Runs |-> IdleCmd]
    /\ candidates = [r \in Runs |-> <<>>]
    /\ batch = [r \in Runs |-> IdleBatch]
    /\ wf = [r \in Runs |-> IdleWf]
    /\ pr = [r \in Runs |-> IdlePr]
    /\ result = [r \in Runs |-> 0]
    /\ faults = FALSE
    /\ cmds = MaxCommands + 1
    /\ promoteOk = {}

NextOverlap ==
    \/ \E r \in Runs : handler_batch_promotion(r, 1)
    \/ StepLoop

SpecOverlap == InitOverlap /\ [][NextOverlap]_vars

(* ------------------------ the end-to-end scenario ---------------------- *)
\* single promotions on a fully configured deployment; every track has a
\* baseline record and the one object audio/{id}/track.wav
InitEndToEnd ==
    /\ now = 30
    /\ cfg = [dev_table |-> TRUE, prod_table |-> TRUE, topic |-> TRUE]
    /\ devTable = [t \in Ids |-> IF t = Unknown THEN NoRecord ELSE Baseline(t)]
    /\ devBucket = [t \in Ids |-> IF t = Unknown THEN {} ELSE {1}]
    /\ prodTable = [t \in Ids |-> NoRecord]
    /\ prodBucket = [t \in Ids |-> {}]
    /\ active = {"A"}
    /\ pc = [r \in Runs |-> "idle"]
    /\ cmd = [r \in Runs |-> IdleCmd]
    /\ candidates = [r \in Runs |-> <<>>]
    /\ batch = [r \in Runs |-> IdleBatch]
    /\ wf = [r \in Runs |-> IdleWf]
    /\ pr = [r \in Runs |-> IdlePr]
    /\ result = [r \in Runs |-> 0]
    /\ faults = FALSE
    /\ cmds = MaxCommands
    /\ promoteOk = {}

\* the calls of a single promotion, each of which returns or raises
StepEndToEnd ==
    \/ \E r \in Runs, o \in {"ok", "fail"} : validate_content_for_promotion(r, o)
    \/ \E r \in Runs, o \in {"ok", "fail"} : _check_file_exists_in_bucket(r, o)
    \/ \E r \in Runs, o \in {"ok", "fail"} : _copy_audio_files_list(r, o)
    \/ \E r \in Runs, o \in {"ok", "fail"} : _copy_audio_files(r, o)
    \/ \E r \in Runs, o \in {"ok", "fail"} : prod_table_put_item(r, o)
    \/ \E r \in Runs, o \in {"ok", "fail"} : _update_dev_promotion_status(r, o)
    \/ \E r \in Runs, o \in {"ok", "fail"} : _send_notification(r, o)
    \/ \E r \in Runs, o \in {"ok", "fail"} : lambda_invoke_returns(r, o)
    \/ \E r \in Runs, o \in {"ok", "fail"} : run_post_promotion_tests(r, o)

NextEndToEnd ==
    \/ \E r \in Runs, t \in Tracks : handler_single_promotion(r, t)
    \/ StepEndToEnd
    \/ Tick

\* an invocation runs on: every call it makes returns or raises
SpecEndToEnd == InitEndToEnd /\ [][NextEndToEnd]_vars /\ WF_vars(StepEndToEnd)


(* ============================== claims ================================ *)
PromotePcs == {"list_copy", "copy", "put_item", "update_item", "publish"}
StepCalls == {"list", "copy_object", "put_item", "update_item"}
PublishCalls == {"publish_success", "publish_failure"}
StageNames == <<"validation", "promotion", "testing">>

StepRank(c) ==
    CASE c = "list" -> 1 [] c = "copy_object" -> 1
      [] c = "put_item" -> 2 [] c = "update_item" -> 3

Promoted(t) ==
    /\ devTable[t] # NoRecord
    /\ "promotionStatus" \in devTable[t].has
    /\ devTable[t].promotionStatus = "promoted"

Finished(p) == p.outcome \in {"returned", "raised"}

(* C1: once promote(A) has returned success, no candidate scan returns A,
   whatever happened during the promotion (a failed staging-record update
   included). *)
C1_IdempotentMarker ==
    \A t \in promoteOk : t \notin SeqToSet(scan_candidates(devTable))

(* C2: a staging record carries promotionStatus = promoted only if at least
   one object under audio/{id}/ has been copied into the production bucket,
   also when the staging objects are removed between the file-existence check
   and the listing of the copy step. *)
C2_PromotedOnlyIfCopied ==
    \A t \in Ids : Promoted(t) => prodBucket[t] # {}

(* C3: promote called with a validation result whose valid is false ends with
   an error and leaves the production bucket, the production table and the
   staging record unchanged: no list, copy, insert or update call is made. *)
C3_PromotionRequiresValidation ==
    [][\A r \in Runs :
          (pc[r] \in PromotePcs /\ ~pr[r].v.valid /\ pr'[r] # pr[r]) =>
              /\ UNCHANGED <<prodBucket, prodTable, devTable>>
              /\ pr'[r].outcome \in {"error", "raised"}
              /\ \A i \in 1..Len(pr'[r].calls) : pr'[r].calls[i].call \notin StepCalls]_vars

C3_Witness ==
    \E r \in Runs : /\ pr[r].caller = "call" /\ ~pr[r].v.valid
                    /\ pr[r].outcome = "raised" /\ pc[r] = "idle"
                    /\ devBucket[pr[r].trackId] # {}

(* C4: the promote steps run in the order copy, insert, update, and a failure
   at any of them (the staging-record update included) executes no later step
   and makes promote end with that error instead of a success result. *)
C4_FailureAbortsPromote ==
    \A r \in Runs :
        LET c == pr[r].calls IN
        /\ \A i, j \in 1..Len(c) :
              (i < j /\ c[i].call \in StepCalls /\ c[j].call \in StepCalls)
              => StepRank(c[i].call) <= StepRank(c[j].call)
        /\ \A i \in 1..Len(c) :
              (c[i].call \in StepCalls /\ ~c[i].ok)
              => /\ \A j \in (i + 1)..Len(c) : c[j].call \notin StepCalls
                 /\ pr[r].outcome \in {"error", "raised"}

(* C5: with the notification topic configured, every invocation of promote
   makes exactly one publish call, the success notification if promote
   returns and the failure notification with the error if it raises, and the
   result of the publish call does not change promote's outcome. *)
C5_OneNotification ==
    \A r \in Runs :
        LET p == pr[r]
            pubs == {i \in 1..Len(p.calls) : p.calls[i].call \in PublishCalls}
        IN  cfg.topic =>
            /\ ~Finished(p) => pubs = {}
            /\ Finished(p) =>
                 /\ Cardinality(pubs) = 1
                 /\ \A i \in pubs :
                      /\ i = Len(p.calls)
                      /\ (p.outcome = "returned") <=> (p.calls[i].call = "publish_success")
                      /\ p.outcome = "raised" =>
                           (p.calls[i].detail # "" /\ p.calls[i].detail = p.failed)
                 /\ (p.outcome = "returned") <=> (p.failed = "")

C5_Witness ==
    \E r \in Runs :
        /\ cfg.topic /\ pr[r].outcome = "returned"
        /\ \E i \in 1..Len(pr[r].calls) :
              pr[r].calls[i].call = "publish_success" /\ ~pr[r].calls[i].ok

(* C6: in the workflow of one artifact the Executor is invoked only after the
   Validator returned valid = true, the Verifier only after the Executor
   returned success, and a failed stage ends the workflow with no later stage
   invoked. *)
C6_StageOrder ==
    \A r \in Runs :
        LET w == wf[r] IN
        /\ Len(w.stages) <= 3
        /\ \A i \in 1..Len(w.stages) : w.stages[i] = StageNames[i]
        /\ Len(w.stages) >= 2 =>
              (Len(w.steps) >= 1 /\ w.steps[1].step = "validation" /\ w.steps[1].success)
        /\ Len(w.stages) >= 3 =>
              (Len(w.steps) >= 2 /\ w.steps[2].step = "promotion" /\ w.steps[2].success
               /\ w.trackId \in promoteOk)
        /\ (InWorkflow(pr[r]) /\ pc[r] \in PromotePcs) =>
              (pr[r].caller = "execute" /\ Len(w.stages) = 2)
        /\ \A i \in 1..Len(w.steps) :
              ~w.steps[i].success => (w.done /\ i = Len(w.steps) /\ Len(w.stages) = i)

C6_Witness ==
    \E r \in Runs : wf[r].done /\ Len(wf[r].stages) = 3 /\ wf[r].success

(* C7: for every terminated workflow the recorded steps are a prefix of
   [validation, promotion, testing] holding exactly the stages executed,
   success is true iff all three stages ran and each succeeded, and a result
   with success = false carries the error naming the stage that failed. *)
StageError(name) ==
    CASE name = "validation" -> "Validation failed"
      [] name = "promotion" -> "Promotion failed"
      [] name = "testing" -> "Post-promotion tests failed"

C7_WorkflowResult ==
    \A r \in Runs :
        LET w == wf[r]
            n == Len(w.steps)
        IN  w.done =>
            /\ n \in 1..3
            /\ \A i \in 1..n : w.steps[i].step = StageNames[i]
            /\ [i \in 1..n |-> w.steps[i].step] = w.stages
            /\ w.success <=> (n = 3 /\ \A i \in 1..n : w.steps[i].success)
            /\ w.success => w.error = ""
            /\ ~w.success =>
                 (~w.steps[n].success /\ w.error = StageError(w.steps[n].step))

C7_Witness ==
    \E r \in Runs : wf[r].done /\ ~wf[r].success /\ Len(wf[r].steps) = 3

(* C8 as stated: within one workflow the eligibility validation, the promotion
   action and the verification each run at most once. *)
Occurrences(seq, x) == Cardinality({i \in 1..Len(seq) : seq[i] = x})

C8_EachRunsOnce ==
    \A r \in Runs :
        /\ \A i \in 1..3 : Occurrences(wf[r].stages, StageNames[i]) <= 1
        /\ wf[r].validations <= 1
        /\ wf[r].promotions <= 1

(* C8 amended: within one workflow no stage is entered more than once and
   nothing is retried; the promotion action and the verification run at most
   once, and the eligibility validation runs once in the validation stage and
   once more inside the promotion stage, where the promoter validates again
   before it promotes. *)
C8_NoStageReentered ==
    \A r \in Runs :
        /\ \A i \in 1..3 : Occurrences(wf[r].stages, StageNames[i]) <= 1
        /\ wf[r].promotions <= 1
        /\ wf[r].validations <= Min(2, Len(wf[r].stages))
        /\ wf[r].promotions > 0 => wf[r].validations = 2

C8_Witness ==
    \E r \in Runs : wf[r].done /\ wf[r].validations = 2 /\ wf[r].promotions = 1

(* C9: for every maxPromotions >= 0 and every scan result of n candidates, a
   batch runs the workflow on exactly the first min(n, maxPromotions)
   candidates in scan order and on no other artifact, reports scanned = n and
   ends with promoted + failed = min(n, maxPromotions). *)
C9_BatchPacing ==
    \A r \in Runs :
        LET b == batch[r]
            n == Len(candidates[r])
            k == Min(n, b.maxPromotions)
            done == Len(b.promotions)
        IN  (cmd[r].action = "batch_promotion" /\ cmd[r].maxIsInt
             /\ b.maxPromotions >= 0) =>
            /\ done <= k
            /\ \A i \in 1..done : b.promotions[i].trackId = candidates[r][i]
            /\ b.promoted + b.failed = done
            /\ b.promoted = Cardinality({i \in 1..done : b.promotions[i].success})
            /\ wf[r].trackId # NoTrack =>
                 (done < k /\ wf[r].trackId = candidates[r][done + 1])
            /\ b.done => (b.scanned = n /\ done = k)

C9_Witness ==
    \E r \in Runs :
        /\ batch[r].done /\ batch[r].maxPromotions = 1
        /\ Len(candidates[r]) = 2 /\ batch[r].scanned = 2
        /\ Len(batch[r].promotions) = 1

(* C10: a batch invocation registers a follow-up run exactly once if
   scanned > promoted + failed at the end of the batch and none otherwise,
   never more than one per invocation. *)
C10_FollowUp ==
    \A r \in Runs :
        LET b == batch[r]
            more == b.scanned > b.promoted + b.failed
        IN  /\ b.ruleCalls <= 1
            /\ b.registered <= b.ruleCalls
            /\ b.done =>
                 /\ b.ruleCalls = (IF more THEN 1 ELSE 0)
                 /\ ~faults => b.registered = (IF more THEN 1 ELSE 0)

C10_Witness ==
    \E r \in Runs : batch[r].done /\ batch[r].registered = 1 /\ batch[r].failed = 1


(* C11: within one batch run the workflows are strictly sequential: every
   validation, copy, insert or update in progress belongs to the candidate
   that follows the terminated ones, none is made for a later candidate, and
   a failed workflow does not keep the batch from the following candidates. *)
PromoterPcs == {"query", "list_check", "invoke_return"} \cup PromotePcs

C11_SequentialBatch ==
    \A r \in Runs :
        LET b == batch[r]
            c == candidates[r]
            done == Len(b.promotions)
        IN  cmd[r].action = "batch_promotion" =>
            /\ pc[r] \in PromoterPcs \cup {"tests"} =>
                 /\ done < Len(c)
                 /\ wf[r].trackId = c[done + 1] /\ ~wf[r].done
                 /\ pc[r] \in PromoterPcs => pr[r].trackId = c[done + 1]
            /\ pc[r] \notin PromoterPcs => pr[r].trackId = NoTrack
            /\ \A i \in 1..done : b.promotions[i].trackId = c[i]
            /\ pc[r] = "loop" => (wf[r].done /\ wf[r].trackId = c[done + 1])
            /\ \A i \in 1..done :
                 (~b.promotions[i].success /\ i < Len(c) /\ i < b.maxPromotions)
                 => (done > i \/ pc[r] \in PromoterPcs \cup {"tests", "loop"})

C11_Witness ==
    \E r \in Runs :
        /\ batch[r].done /\ Len(batch[r].promotions) = 2
        /\ ~batch[r].promotions[1].success /\ batch[r].promotions[2].success


(* C12: a successful candidate scan returns a staging record if and only if
   its status is processed, its promotionStatus is absent and its age
   (now - createdDate) is at least 60 minutes. *)
Eligible(t) ==
    /\ devTable[t] # NoRecord
    /\ "status" \in devTable[t].has /\ devTable[t].status = "processed"
    /\ "promotionStatus" \notin devTable[t].has
    /\ now - devTable[t].createdDate >= 60

C12_GracePeriod ==
    [][\A r \in Runs :
          (pc[r] = "scan" /\ pc'[r] # "scan" /\ ~faults') =>
              /\ SeqToSet(candidates'[r]) = {t \in Ids : Eligible(t)}
              /\ Len(candidates'[r]) = Cardinality({t \in Ids : Eligible(t)})]_vars

C12_Witness ==
    \E r \in Runs :
        /\ cmd[r].action = "scan_candidates" /\ pc[r] = "idle" /\ result[r] = 200
        /\ now = 60 /\ ~faults
        /\ devTable[1].createdDate = 1 /\ devTable[1].status = "processed"
        /\ "promotionStatus" \notin devTable[1].has
        /\ 1 \notin SeqToSet(candidates[r]) /\ 2 \in SeqToSet(candidates[r])


(* C13: a record whose status is not processed is never returned by the
   candidate scan, never passes a validation that reads it and is never
   promoted (no object copied, no production record written, no marker set),
   for as long as its status stays different from processed. *)
NotProcessed(t) ==
    /\ devTable[t] # NoRecord
    /\ "status" \notin devTable[t].has \/ devTable[t].status # "processed"

C13_NotProcessedNeverPromoted ==
    [][\A t \in Tracks :
          (NotProcessed(t) /\ NotProcessed(t)') =>
              /\ \A r \in Runs : (pc[r] = "scan" /\ pc'[r] # "scan")
                                 => t \notin SeqToSet(candidates'[r])
              /\ \A r \in Runs : (pc[r] = "list_check" /\ pr[r].trackId = t
                                  /\ pr[r].v.track = devTable[t])
                                 => ~pr'[r].v.valid
              /\ prodBucket'[t] = prodBucket[t]
              /\ prodTable'[t] = prodTable[t]
              /\ Promoted(t)' => Promoted(t)]_vars


(* C14: validation is a pure predicate: validate(A) changes no metadata store
   and no object store, every validation that reads the record lists the same
   seven checks in the same order (processing status, the four required fields,
   file existence, quality), and two validations of A whose reads all
   succeed, with A's record and objects as they were written, return the
   same valid flag and the same checks with the same pass/fail values. *)
CheckNames ==
    <<"Processing Status", "Required Field: title", "Required Field: filename",
      "Required Field: fileUrl", "Required Field: duration", "File Existence",
      "Audio Quality">>

Validated(r) ==
    /\ pc[r] = "idle" /\ pr[r].caller = "direct" /\ ~pr[r].autoPromote
    /\ pr[r].resp.statusCode # 0

ReadsOk(p) == \A i \in 1..Len(p.calls) : p.calls[i].ok

C14_ValidationPure ==
    [][/\ \A r \in Runs :
            (pc[r] \in {"query", "list_check"} /\ pr'[r] # pr[r])
            => UNCHANGED <<devTable, devBucket, prodTable, prodBucket>>
       /\ \A r \in Runs :
            (Validated(r)' /\ pr'[r].v.reason = "") =>
                /\ Len(pr'[r].v.checks) = Len(CheckNames)
                /\ \A i \in 1..Len(CheckNames) : pr'[r].v.checks[i].name = CheckNames[i]
                /\ pr'[r].v.valid <=> \A i \in 1..Len(CheckNames) : pr'[r].v.checks[i].passed
       /\ \A q, r \in Runs :
            (/\ Validated(q)' /\ Validated(r)'
             /\ pr'[q].trackId = pr'[r].trackId
             /\ ReadsOk(pr'[q]) /\ ReadsOk(pr'[r])
             /\ devBucket'[pr'[r].trackId] = (IF pr'[r].trackId = Unknown THEN {} ELSE Files))
            => /\ pr'[q].v.valid = pr'[r].v.valid
               /\ pr'[q].v.checks = pr'[r].v.checks
               /\ pr'[q].v.reason = pr'[r].v.reason]_vars

C14_Witness ==
    /\ Validated("A") /\ Validated("B")
    /\ pr["A"].trackId = 1 /\ pr["B"].trackId = 1
    /\ ReadsOk(pr["A"]) /\ ReadsOk(pr["B"])
    /\ devBucket[1] = Files
    /\ ~pr["A"].v.valid /\ pr["A"].v.checks = pr["B"].v.checks
    /\ pr["A"].v.checks[1].passed /\ ~pr["A"].v.checks[2].passed


(* C15: the audio-quality check passes if and only if 1 <= duration <= 600
   seconds and 10 KB <= fileSize <= 50 MB, the bounds included, and a failed
   check carries the message of a bound that is violated: too short below 1
   second, too long above 600, too small below 10 KB, too large above 50 MB. *)
C15_QualityBounds ==
    \A r \in Runs :
        (Validated(r) /\ pr[r].v.reason = "") =>
            LET track == pr[r].v.track
                q == pr[r].v.checks[Len(CheckNames)]
                d == IF "duration" \in track.has THEN track.duration ELSE 0
                z == IF "fileSize" \in track.has THEN track.fileSize ELSE 0
                short == d < MinDuration * PerSecond
                long == d > MaxDuration * PerSecond
                small == z < MinFileSize
                large == z > MaxFileSize
            IN  /\ q.name = "Audio Quality"
                /\ q.passed <=> ~(short \/ long \/ small \/ large)
                /\ q.passed <=> (q.message = "Audio quality checks passed")
                /\ (q.message = "Duration is too short (less than 1 second)") <=> short
                /\ (q.message = "Duration is too long (over 10 minutes)") <=> long
                /\ (q.message = "File size is too small (likely corrupted)")
                       <=> (small /\ ~short /\ ~long)
                /\ (q.message = "File size is too large (over 50MB)")
                       <=> (large /\ ~short /\ ~long)

C15_Witness ==
    \E r \in Runs :
        /\ Validated(r) /\ pr[r].v.reason = ""
        /\ pr[r].v.track.duration = MinDuration * PerSecond - 1
        /\ "duration" \in pr[r].v.track.has
        /\ ~pr[r].v.checks[Len(CheckNames)].passed
        /\ \A i \in 1..(Len(CheckNames) - 1) : pr[r].v.checks[i].passed


(* C16: for each field f of title, filename, fileUrl, duration, removing f
   from a record that otherwise passes validation makes valid false and makes
   exactly one check fail, the required-field check of f, all other checks
   still passing. *)
RequiredIndex(f) ==
    CASE f = "title" -> 2 [] f = "filename" -> 3 [] f = "fileUrl" -> 4
      [] f = "duration" -> 5

C16_RequiredFields ==
    \A r \in Runs : \A f \in {"title", "filename", "fileUrl", "duration"} :
        (/\ Validated(r) /\ pr[r].v.reason = "" /\ ReadsOk(pr[r])
         /\ devBucket[pr[r].trackId] = Files
         /\ pr[r].v.track = Without(Baseline(pr[r].trackId), f))
        => /\ ~pr[r].v.valid
           /\ {i \in 1..Len(pr[r].v.checks) : ~pr[r].v.checks[i].passed}
                 = {RequiredIndex(f)}


(* C17: for an artifact id with no staging record, validate returns
   valid = false with a reason and raises nothing, and the workflow for that
   id terminates with success = false after the validation step only: neither
   the Executor nor the Verifier is invoked and no store is changed. *)
C17_NotFound ==
    [][\A r \in Runs :
          LET t == pr[r].trackId IN
          (t # NoTrack /\ devTable[t] = NoRecord /\ pc[r] # "idle"
                  /\ pr'[r] # pr[r]) =>
              /\ UNCHANGED <<devTable, devBucket, prodTable, prodBucket>>
              /\ pc'[r] \notin PromotePcs \cup {"list_check", "tests"}
              /\ (pc[r] = "query" /\ ReadsOk(pr'[r]) /\ cfg.dev_table) =>
                    /\ ~pr'[r].v.valid
                    /\ pr'[r].v.reason = "Track not found in DEV environment"
                    /\ pr'[r].resp.statusCode = 400
              /\ InWorkflow(pr[r]) =>
                    /\ wf'[r].stages = <<"validation">>
                    /\ pc[r] = "invoke_return" =>
                          /\ wf'[r].done /\ ~wf'[r].success
                          /\ wf'[r].steps = <<Step("validation", FALSE)>>
                          /\ wf'[r].error = "Validation failed"
                          /\ pc'[r] = "idle" /\ result'[r] = 200]_vars

C17_Witness ==
    \E r \in Runs :
        /\ cmd[r].action = "single_promotion" /\ cmd[r].trackId = Unknown
        /\ wf[r].done /\ ~wf[r].success /\ ~faults
        /\ wf[r].steps = <<Step("validation", FALSE)>>


(* C18: a batch invocation of the scheduler entry point always comes back
   with a structured result: at every point of the run a next step exists
   for either outcome of the pending call, no step sets another status than
   200, the run ends with the batch result built, and the one error that
   escapes inside the batch (a maxPromotions that cannot slice the candidate
   list) is recorded in the batch result's error field and nowhere else. *)
BatchStep(r) ==
    \E o \in {"ok", "fail"} :
        \/ scan_for_promotion_candidates(r, o)
        \/ validate_content_for_promotion(r, o)
        \/ _check_file_exists_in_bucket(r, o)
        \/ _copy_audio_files_list(r, o)
        \/ _copy_audio_files(r, o)
        \/ prod_table_put_item(r, o)
        \/ _update_dev_promotion_status(r, o)
        \/ _send_notification(r, o)
        \/ lambda_invoke_returns(r, o)
        \/ run_post_promotion_tests(r, o)
        \/ process_batch_promotion(r)
        \/ send_batch_notification(r, o)
        \/ schedule_next_batch_rule(r, o)
        \/ schedule_next_batch_targets(r, o)

C18_StructuredResult ==
    \A r \in Runs :
        cmd[r].action = "batch_promotion" =>
            /\ pc[r] = "idle" => (batch[r].done /\ result[r] = 200)
            /\ pc[r] # "idle" =>
                  (~batch[r].done /\ result[r] = 0 /\ ENABLED BatchStep(r))
            /\ (batch[r].error # "") <=> (~cmd[r].maxIsInt /\ pc[r] # "scan")
            /\ batch[r].error # "" =>
                  (batch[r].promotions = <<>> /\ batch[r].publishCalls = 0)

C18_Witness ==
    \E r \in Runs :
        /\ cmd[r].action = "batch_promotion" /\ pc[r] = "idle"
        /\ batch[r].done /\ result[r] = 200
        /\ batch[r].error # "" /\ faults


(* C19: a failed scan of the staging table shows in the returned result: a
   scan_candidates invocation whose scan failed does not answer 200 with an
   empty candidate list, and a batch whose scan failed carries an error in
   its result. *)
C19_ScanFailureReported ==
    \A r \in Runs :
        (cfg.dev_table /\ faults /\ candidates[r] = <<>>) =>
            /\ (cmd[r].action = "scan_candidates" /\ pc[r] = "idle") =>
                  result[r] # 200
            /\ (cmd[r].action = "batch_promotion" /\ pc[r] = "batch_publish") =>
                  batch[r].error # ""


(* C20: promotionStatus is set once: a staging record that carries
   promotionStatus = promoted keeps it in every later state, and no step
   writes its promotionStatus or its promotedAt again. *)
C20_MarkerSetOnce ==
    [][\A t \in Tracks :
          Promoted(t) =>
              /\ Promoted(t)'
              /\ devTable'[t].promotedAt = devTable[t].promotedAt]_vars


(* C21: the promotion subsystem leaves the staging table alone but for the
   marker: no step deletes or creates a staging record, and a step that
   changes one is the staging update of a promotion of that record, which
   adds promotionStatus = promoted and promotedAt together and leaves the
   key, the status and every content field as they were; promotionStatus is
   present exactly when promotedAt is. *)
MarkerAttrs == {"promotionStatus", "promotedAt"}

C21_StagingFrame ==
    [][\A t \in Ids :
          /\ (devTable'[t] = NoRecord) <=> (devTable[t] = NoRecord)
          /\ devTable'[t] # devTable[t] =>
                /\ \E r \in Runs : pc[r] = "update_item" /\ pr[r].trackId = t
                /\ devTable'[t] = [devTable[t] EXCEPT
                                      !.has = @ \cup MarkerAttrs,
                                      !.promotionStatus = "promoted",
                                      !.promotedAt = now]
          /\ devTable'[t] # NoRecord =>
                (("promotionStatus" \in devTable'[t].has)
                    <=> ("promotedAt" \in devTable'[t].has))]_vars

C21_Witness ==
    \E t \in Tracks :
        /\ Promoted(t) /\ "promotedAt" \in devTable[t].has
        /\ devTable[t].status = "processed" /\ devTable[t].createdDate = 0
        /\ t \in promoteOk


(* C22: the production table is written by the insert of a promotion only,
   and the record inserted is a copy of the staging record the validation of
   that invocation read: same id, createdDate, status and content fields,
   with environment = prod, promotedFrom and the promotion timestamp added
   and every occurrence of the staging bucket name in fileUrl replaced by
   the production bucket name. *)
CopiedAttrs == AllAttrs \ {"fileUrl"}

C22_ProdRecordDerived ==
    [][\A t \in Ids :
          prodTable'[t] # prodTable[t] =>
              \E r \in Runs :
                  LET src == pr[r].v.track
                      new == prodTable'[t]
                  IN  /\ pc[r] = "put_item" /\ pr[r].trackId = t
                      /\ pr[r].v.valid /\ src # NoRecord /\ src.id = t
                      /\ \A f \in CopiedAttrs \ {"status"} :
                            src[f] = devTable[t][f]
                      /\ \A f \in CopiedAttrs :
                            new[f] = src[f] /\ (f \in new.has <=> f \in src.has)
                      /\ {"environment", "promotedAt", "promotedFrom"} \subseteq new.has
                      /\ new.environment = "prod" /\ new.promotedAt = now
                      /\ new.promotedFrom = "dev"
                      /\ ("fileUrl" \in new.has) <=> ("fileUrl" \in src.has)
                      /\ Len(new.fileUrl) = Len(src.fileUrl)
                      /\ \A i \in 1..Len(src.fileUrl) :
                            new.fileUrl[i] = IF src.fileUrl[i] = "dev-media"
                                             THEN "prod-media" ELSE src.fileUrl[i]]_vars

C22_Witness ==
    \E t \in Tracks :
        /\ prodTable[t] # NoRecord /\ devTable[t] # NoRecord
        /\ devTable[t].fileUrl = <<"https://", "dev-media", "/audio/track.wav">>
        /\ prodTable[t].fileUrl = <<"https://", "prod-media", "/audio/track.wav">>
        /\ prodTable[t].environment = "prod"


(* C23: promotion is one-time: the promote steps are carried out to
   completion at most once per artifact, so no invocation completes the
   staging update of an artifact for which promote has already returned
   success. *)
C23_PromotedOnce ==
    [][\A r \in Runs :
          (pc[r] = "update_item" /\ pc'[r] = "publish") =>
              pr[r].trackId \notin promoteOk]_vars


(* C24: a promote whose copy step fails after k objects were copied ends
   with an error, leaves those k objects in the production bucket, inserts
   no production record and sets no marker; a later promote of the same
   artifact in which no call fails leaves all the artifact's keys in the
   production bucket, the production record and the marker, as a promotion
   does that never failed (timestamps aside).  The record and the marker
   are absent after the failure unless another invocation wrote them. *)
NoCallFailed(p) == \A i \in 1..Len(p.calls) : p.calls[i].ok

CallsOf(p) == {p.calls[i].call : i \in 1..Len(p.calls)}

\* what a promotion of track t in which nothing fails leaves behind
PromotionDone(t) ==
    /\ prodBucket[t] = devBucket[t] /\ prodBucket[t] = Files
    /\ prodTable[t] # NoRecord
    /\ prodTable[t].id = t /\ prodTable[t].createdDate = devTable[t].createdDate
    /\ prodTable[t].title = devTable[t].title
    /\ prodTable[t].environment = "prod" /\ "environment" \in prodTable[t].has
    /\ prodTable[t].fileUrl = <<"https://", "prod-media", "/audio/track.wav">>
    /\ Promoted(t) /\ "promotedAt" \in devTable[t].has
    /\ devTable[t].status = "processed"

C24_PartialCopyRetry ==
    \A r \in Runs :
        LET p == pr[r]
            t == p.trackId
        IN  /\ p.failed = "copy" =>
                  /\ p.outcome \in {"error", "raised"}
                  /\ SeqToSet(p.copied) \subseteq prodBucket[t]
                  /\ CallsOf(p) \cap {"put_item", "update_item", "publish_success"} = {}
                  /\ pc[r] = "idle" => result[r] = 500
                  /\ (t \notin promoteOk /\ \A q \in Runs : "put_item" \notin CallsOf(pr[q])) =>
                        prodTable[t] = NoRecord
                  /\ (t \notin promoteOk /\ \A q \in Runs : "update_item" \notin CallsOf(pr[q])) =>
                        ~Promoted(t)
            /\ (p.outcome = "returned" /\ NoCallFailed(p)) =>
                  (PromotionDone(t) /\ result[r] = 200)

C24_Witness ==
    /\ pr["A"].outcome = "raised" /\ pr["A"].failed = "copy"
    /\ Len(pr["A"].copied) = 1
    /\ pr["B"].outcome = "returned" /\ NoCallFailed(pr["B"]) /\ ~faults
    /\ PromotionDone(1)


(* C25: end to end, for an artifact with status processed, every required
   field, duration 30 s, fileSize 2 MB and the one object track.wav in
   staging, when no external call fails: the validation returns valid, the
   workflow terminates, and it terminates successful with track.wav in the
   production bucket, a production record with environment = prod and the
   staging record marked promoted. *)
EndToEndState ==
    \A r \in Runs :
        LET t == cmd[r].trackId IN
        (cmd[r].action = "single_promotion" /\ ~faults) =>
            /\ (pc[r] = "invoke_return" /\ pr[r].caller = "validate") =>
                  (pr[r].v.valid /\ pr[r].resp.readyForPromotion)
            /\ pc[r] = "idle" =>
                  /\ wf[r].done /\ wf[r].success /\ result[r] = 200
                  /\ wf[r].steps = <<Step("validation", TRUE), Step("promotion", TRUE),
                                     Step("testing", TRUE)>>
                  /\ prodBucket[t] = {1}
                  /\ prodTable[t] # NoRecord /\ prodTable[t].id = t
                  /\ prodTable[t].environment = "prod"
                  /\ Promoted(t)

C25_EndToEnd ==
    /\ []EndToEndState
    /\ \A r \in Runs : (pc[r] # "idle") ~> (pc[r] = "idle" /\ wf[r].done)

C25_Witness ==
    \E r \in Runs :
        /\ cmd[r].action = "single_promotion" /\ cmd[r].trackId = 1
        /\ pc[r] = "idle" /\ wf[r].done /\ wf[r].success /\ ~faults
        /\ devTable[1].duration = 30 * PerSecond /\ devTable[1].fileSize = 2000000
        /\ devBucket[1] = {1} /\ prodBucket[1] = {1}
        /\ prodTable[1] # NoRecord /\ Promoted(1)


(* C26: for every integer maxPromotions, zero and negative values included,
   a batch runs at most max(0, maxPromotions) workflows: the workflows it
   has finished plus the one in progress never exceed that number. *)
C26_BatchLimit ==
    \A r \in Runs :
        (cmd[r].action = "batch_promotion" /\ cmd[r].maxIsInt) =>
            Len(batch[r].promotions)
              + (IF wf[r].trackId # NoTrack /\ pc[r] # "idle" THEN 1 ELSE 0)
                <= Max(0, cmd[r].maxPromotions)


(* C27: in every reachable state and every configuration, a staging record
   marked promotionStatus = promoted has a production record with the same
   id and createdDate. *)
C27_MarkerImpliesProdRecord ==
    \A t \in Tracks :
        Promoted(t) =>
            /\ prodTable[t] # NoRecord
            /\ prodTable[t].id = devTable[t].id
            /\ prodTable[t].createdDate = devTable[t].createdDate


(* C28: a workflow that has terminated with success = false has left its
   artifact unpromoted, with no production record and no marker, so that the
   promoted count of a finished batch is the number of staging records that
   carry the marker (none carries it before the batch). *)
C28_FailedMeansUnpromoted ==
    \A r \in Runs :
        /\ (wf[r].done /\ ~wf[r].success) =>
              /\ prodTable[wf[r].trackId] = NoRecord
              /\ ~Promoted(wf[r].trackId)
        /\ (cmd[r].action = "batch_promotion" /\ batch[r].done) =>
              batch[r].promoted = Cardinality({t \in Tracks : Promoted(t)})


(* C29: under the self-rescheduling batch loop, with maxPromotions >= 1 and
   no failing call, a record that passes validation is eventually promoted
   once a batch has started, whatever records that never pass validation
   precede it in the scan; and once no such record is left, eventually a
   batch run ends without registering a follow-up. *)
Promotable(t) == devTable[t] = Baseline(t)

BatchStarted == \E r \in Runs : cmd[r].action = "batch_promotion"

C29_EventuallyPromoted ==
    /\ \A t \in 1..LoopTracks :
          (BatchStarted /\ Promotable(t)) ~> Promoted(t)
    /\ (BatchStarted /\ \A t \in 1..LoopTracks : ~Promotable(t))
          ~> (\E r \in Runs : /\ pc[r] = "idle" /\ batch[r].done
                                /\ batch[r].ruleCalls = 0)


(* C30 as stated: when two batch runs overlap and both take the same
   candidate, every interleaving ends, timestamps aside, in the state a
   single promotion of that candidate produces: the production bucket, the
   production record and the staging record are those of a single
   promotion. *)
BothTook(t) ==
    \A r \in Runs :
        /\ cmd[r].action = "batch_promotion" /\ pc[r] = "idle" /\ batch[r].done
        /\ candidates[r] # <<>> /\ candidates[r][1] = t
        /\ Len(batch[r].promotions) = 1

\* the production record a single promotion of a baseline record writes,
\* and the staging record it leaves, with the timestamps set to 0
SinglePromotionProd(t) ==
    [Baseline(t) EXCEPT !.has = @ \cup {"promotedFrom", "promotedAt", "environment"},
                        !.promotedFrom = "dev", !.environment = "prod",
                        !.fileUrl = <<"https://", "prod-media", "/audio/track.wav">>]

SinglePromotionDev(t) ==
    [Baseline(t) EXCEPT !.has = @ \cup MarkerAttrs, !.promotionStatus = "promoted"]

C30_OverlapSameState ==
    \A t \in Tracks :
        BothTook(t) =>
            /\ prodBucket[t] = Files
            /\ [prodTable[t] EXCEPT !.promotedAt = 0] = SinglePromotionProd(t)
            /\ [devTable[t] EXCEPT !.promotedAt = 0] = SinglePromotionDev(t)

(* C30, amended: in every such interleaving both workflows succeed and the
   end state has the object keys of a single promotion in the production
   bucket, one production record for the candidate's (id, createdDate) with
   the content fields of the staging record and environment = prod, and the
   staging record marked promoted and otherwise unchanged; the production
   record differs from that of a single promotion at most in carrying the
   attribute promotionStatus = promoted, copied from the staging record. *)
C30_OverlapConverges ==
    \A t \in Tracks :
        BothTook(t) =>
            /\ \A r \in Runs : batch[r].promotions[1] = [trackId |-> t, success |-> TRUE]
            /\ prodBucket[t] = Files /\ prodBucket[t] = devBucket[t]
            /\ [devTable[t] EXCEPT !.promotedAt = 0] = SinglePromotionDev(t)
            /\ \/ [prodTable[t] EXCEPT !.promotedAt = 0] = SinglePromotionProd(t)
               \/ [prodTable[t] EXCEPT !.promotedAt = 0] =
                     [SinglePromotionProd(t) EXCEPT !.has = @ \cup MarkerAttrs,
                                                    !.promotionStatus = "promoted"]

C30_Witness ==
    /\ BothTook(1)
    /\ "promotionStatus" \in prodTable[1].has
    /\ prodBucket[1] = Files /\ Promoted(1)
====
